---- MODULE Spec2Model ----
(***************************************************************************)
(* Model of the Pontus-X registry hooks (src/src/hooks.ts): the search     *)
(* predicate matchIdentity, the paginated aggregation listFetcher, the     *)
(* legacy fetch deprecatedFetcher and the merge/filter of                  *)
(* usePontusXRegistry.                                                     *)
(*                                                                         *)
(* JavaScript strings are sequences of one-character strings, so that      *)
(* toLowerCase, toUpperCase, trim and includes are computed and not        *)
(* assumed.  JavaScript values are records [t, s, vals]: t is the typeof   *)
(* tag, s the characters of a string, vals the entries of an object.       *)
(***************************************************************************)
EXTENDS Integers, Sequences, FiniteSets, TLC

(***************************************************************************)
(* Bounds of the model.                                                    *)
(***************************************************************************)
MaxRecords == 3
MaxBatch == 2
MaxLegacy == 3

(***************************************************************************)
(* JavaScript values.                                                      *)
(***************************************************************************)
Str(chars) == [t |-> "string", s |-> chars, vals |-> <<>>]
Null == [t |-> "null", s |-> <<>>, vals |-> <<>>]
Undefined == [t |-> "undefined", s |-> <<>>, vals |-> <<>>]
Num == [t |-> "number", s |-> <<>>, vals |-> <<>>]
\* An object: vals is the sequence of its <<key, value>> entries, in
\* property order.
Obj(entries) == [t |-> "object", s |-> <<>>, vals |-> entries]

\* JavaScript truthiness of the values above: null, undefined and the empty
\* string are falsy, every object and every non-empty string is truthy.
Truthy(v) ==
  CASE v.t = "string" -> v.s # <<>>
    [] v.t = "object" -> TRUE
    [] v.t = "number" -> TRUE
    [] OTHER -> FALSE

\* Object.values(o): the values of the entries, in order.
ObjectValues(o) == [i \in 1..Len(o.vals) |-> o.vals[i][2]]

\* typeof v === 'object' holds of objects and of null.
TypeofObject(v) == v.t = "object" \/ v.t = "null"

(***************************************************************************)
(* String.prototype operations on ASCII text.                              *)
(***************************************************************************)
UpperLetters ==
  <<"A","B","C","D","E","F","G","H","I","J","K","L","M",
    "N","O","P","Q","R","S","T","U","V","W","X","Y","Z">>
LowerLetters ==
  <<"a","b","c","d","e","f","g","h","i","j","k","l","m",
    "n","o","p","q","r","s","t","u","v","w","x","y","z">>
Digits == {"0","1","2","3","4","5","6","7","8","9"}

IsUpper(c) == \E i \in 1..26 : UpperLetters[i] = c
IsLower(c) == \E i \in 1..26 : LowerLetters[i] = c
IsAlpha(c) == IsUpper(c) \/ IsLower(c)
IsSpace(c) == c = " "

LowerChar(c) ==
  IF IsUpper(c) THEN LowerLetters[CHOOSE i \in 1..26 : UpperLetters[i] = c] ELSE c
UpperChar(c) ==
  IF IsLower(c) THEN UpperLetters[CHOOSE i \in 1..26 : LowerLetters[i] = c] ELSE c

toLowerCase(s) == [i \in 1..Len(s) |-> LowerChar(s[i])]
toUpperCase(s) == [i \in 1..Len(s) |-> UpperChar(s[i])]

RECURSIVE trimStart(_)
trimStart(s) == IF s # <<>> /\ IsSpace(Head(s)) THEN trimStart(Tail(s)) ELSE s
RECURSIVE trimEnd(_)
trimEnd(s) ==
  IF s # <<>> /\ IsSpace(s[Len(s)]) THEN trimEnd(SubSeq(s, 1, Len(s) - 1)) ELSE s
trim(s) == trimEnd(trimStart(s))

\* hay.includes(needle)
includes(hay, needle) ==
  \E i \in 0..(Len(hay) - Len(needle)) : SubSeq(hay, i + 1, i + Len(needle)) = needle

(***************************************************************************)
(* Intl.DisplayNames(['en'], {type: 'region'}).of(code), as hooks.ts uses  *)
(* it: a code that is no region subtag (two letters or three digits)       *)
(* raises RangeError; a well-formed code yields its English name, or the   *)
(* code itself when the locale data has no name for it (fallback 'code').  *)
(***************************************************************************)
IsRegionSubtag(code) ==
  \/ Len(code) = 2 /\ \A i \in 1..2 : IsAlpha(code[i])
  \/ Len(code) = 3 /\ \A i \in 1..3 : code[i] \in Digits

regionNamesOfThrows(code) == ~IsRegionSubtag(code)

regionNamesOf(code) ==
  CASE code = <<"D","E">> -> <<"G","e","r","m","a","n","y">>
    [] code = <<"F","R">> -> <<"F","r","a","n","c","e">>
    [] OTHER -> code

(***************************************************************************)
(* matchIdentity (hooks.ts 22-122).  Each step is the guard of one early   *)
(* "return false"; matchIdentity returns true when no step rejects.        *)
(***************************************************************************)

\* Mutant of walletAddressRejects: the address is searched for the criterion
\* (includes) instead of compared with it.
walletAddressRejectsUnlessIncluded(identity, search) ==
  /\ Truthy(search.walletAddress)
  /\ ~includes(toLowerCase(identity.walletAddress.s), toLowerCase(search.walletAddress.s))

\* 1. Wallet address: exact match, case-insensitive (lines 27-34).
walletAddressRejects(identity, search) ==
  /\ Truthy(search.walletAddress)
  /\ toLowerCase(identity.walletAddress.s) # toLowerCase(search.walletAddress.s)

\* Mutant of legalNameRejects: the criterion is not lower-cased.
legalNameRejectsCaseSensitive(identity, search) ==
  /\ Truthy(search.legalName)
  /\ \/ ~Truthy(identity.legalName)
     \/ ~includes(toLowerCase(identity.legalName.s), search.legalName.s)

\* 2. Legal name: partial match, case-insensitive (lines 37-44).
legalNameRejects(identity, search) ==
  /\ Truthy(search.legalName)
  /\ \/ ~Truthy(identity.legalName)
     \/ ~includes(toLowerCase(identity.legalName.s), toLowerCase(search.legalName.s))

\* The credential objects that the two .some() loops look into (lines 60-61
\* and 94-95): entries that are null or no object are skipped.
credentialSkipped(credential) == ~Truthy(credential) \/ ~TypeofObject(credential)

\* Lines 63-67: some value of the credential is a string containing the term.
registrationValueMatches(value, searchTerm) ==
  value.t = "string" /\ includes(toLowerCase(value.s), searchTerm)

\* Mutant of registrationHasMatch: only the first credential is searched.
registrationHasMatchFirstCredential(credentials, searchTerm) ==
  \E i \in 1..Len(credentials.vals) :
    /\ i = 1
    /\ credentials.vals[i][2].t = "object"
    /\ \E j \in 1..Len(credentials.vals[i][2].vals) :
         /\ credentials.vals[i][2].vals[j][2].t = "string"
         /\ includes(toLowerCase(credentials.vals[i][2].vals[j][2].s), searchTerm)

registrationHasMatch(credentials, searchTerm) ==
  \E i \in 1..Len(credentials.vals) :
    LET credential == ObjectValues(credentials)[i]
    IN  /\ ~credentialSkipped(credential)
        /\ \E j \in 1..Len(credential.vals) :
             registrationValueMatches(ObjectValues(credential)[j], searchTerm)

\* 3. Registration number (lines 47-71).
registrationNumberRejects(identity, search) ==
  /\ Truthy(search.registrationNumber)
  /\ IF identity.version # "v1" THEN TRUE
     ELSE IF ~Truthy(identity.credentialsData) THEN TRUE
     ELSE ~registrationHasMatch(identity.credentialsData,
                                toLowerCase(search.registrationNumber.s))

\* Mutant of countryValueMatches: the name is searched case-sensitively.
countryValueMatchesNameCaseSensitive(value, searchCode, searchName) ==
  IF value.t # "string" THEN FALSE
  ELSE \/ toUpperCase(trim(value.s)) = searchCode
       \/ searchName.t = "string" /\ searchName.s # <<>>
            /\ includes(trim(value.s), searchName.s)

\* Lines 97-115: the value, trimmed, equals the code or contains the name.
\* searchName is a JavaScript value: undefined or a string.
countryValueMatches(value, searchCode, searchName) ==
  IF value.t # "string" THEN FALSE
  ELSE LET normalizedValue == trim(value.s)
       IN  IF toUpperCase(normalizedValue) = searchCode THEN TRUE
           ELSE IF /\ Truthy(searchName)
                   /\ includes(toLowerCase(normalizedValue), toLowerCase(searchName.s))
                THEN TRUE
                ELSE FALSE

countryHasMatch(credentials, searchCode, searchName) ==
  \E i \in 1..Len(credentials.vals) :
    LET credential == ObjectValues(credentials)[i]
    IN  /\ ~credentialSkipped(credential)
        /\ \E j \in 1..Len(credential.vals) :
             countryValueMatches(ObjectValues(credential)[j], searchCode, searchName)

\* Mutant of countryCodeRejects: the catch block does not return, the search
\* goes on without a name.
countryCodeRejectsCatchFallsThrough(identity, search) ==
  /\ Truthy(search.countryCode)
  /\ IF identity.version # "v1" THEN TRUE
     ELSE IF ~Truthy(identity.credentialsData) THEN TRUE
     ELSE LET searchCode == toUpperCase(search.countryCode.s)
          IN  ~countryHasMatch(identity.credentialsData, searchCode,
                               IF regionNamesOfThrows(searchCode) THEN Undefined
                               ELSE Str(regionNamesOf(searchCode)))

\* 4. Country (lines 74-119).
countryCodeRejects(identity, search) ==
  /\ Truthy(search.countryCode)
  /\ IF identity.version # "v1" THEN TRUE
     ELSE IF ~Truthy(identity.credentialsData) THEN TRUE
     ELSE LET searchCode == toUpperCase(search.countryCode.s)
          IN  IF regionNamesOfThrows(searchCode) THEN TRUE
              ELSE ~countryHasMatch(identity.credentialsData, searchCode,
                                    Str(regionNamesOf(searchCode)))

\* Mutant of matchIdentity: a matching wallet address returns true at once.
matchIdentityWalletDecides(identity, search) ==
  IF Truthy(search.walletAddress)
  THEN toLowerCase(identity.walletAddress.s) = toLowerCase(search.walletAddress.s)
  ELSE IF legalNameRejects(identity, search) THEN FALSE
  ELSE IF registrationNumberRejects(identity, search) THEN FALSE
  ELSE IF countryCodeRejects(identity, search) THEN FALSE
  ELSE TRUE

matchIdentity(identity, search) ==
  IF walletAddressRejects(identity, search) THEN FALSE
  ELSE IF legalNameRejects(identity, search) THEN FALSE
  ELSE IF registrationNumberRejects(identity, search) THEN FALSE
  ELSE IF countryCodeRejects(identity, search) THEN FALSE
  ELSE TRUE

(***************************************************************************)
(* The TypeErrors matchIdentity can raise: a method called on a value that *)
(* has none.  Every step is evaluated only if the steps before it neither  *)
(* threw nor returned.                                                     *)
(***************************************************************************)
\* Lines 30-32: toLowerCase() of both addresses.
walletAddressThrows(identity, search) ==
  /\ Truthy(search.walletAddress)
  /\ identity.walletAddress.t # "string" \/ search.walletAddress.t # "string"

\* Mutant of legalNameThrows: the legal name is not checked before it is
\* lower-cased.
legalNameThrowsUnguarded(identity, search) ==
  /\ Truthy(search.legalName)
  /\ identity.legalName.t # "string" \/ search.legalName.t # "string"

\* Lines 38-43: toLowerCase() of the legal name, behind !identity.legalName.
legalNameThrows(identity, search) ==
  /\ Truthy(search.legalName)
  /\ Truthy(identity.legalName)
  /\ identity.legalName.t # "string" \/ search.legalName.t # "string"

\* Object.values(v) throws on null and undefined only.
ObjectValuesThrows(v) == v.t = "null" \/ v.t = "undefined"

\* Lines 54-67 and 86-115: Object.values() of the credentials and of every
\* credential that is not skipped.
credentialsThrow(credentials) ==
  \/ ObjectValuesThrows(credentials)
  \/ \E i \in 1..Len(credentials.vals) :
       LET credential == ObjectValues(credentials)[i]
       IN  ~credentialSkipped(credential) /\ ObjectValuesThrows(credential)

\* Lines 47-71.
registrationNumberThrows(identity, search) ==
  /\ Truthy(search.registrationNumber)
  /\ \/ search.registrationNumber.t # "string"
     \/ /\ identity.version = "v1"
        /\ Truthy(identity.credentialsData)
        /\ credentialsThrow(identity.credentialsData)

\* Lines 74-119: the RangeError of Intl.DisplayNames is caught (lines 81-84).
countryCodeThrows(identity, search) ==
  /\ Truthy(search.countryCode)
  /\ \/ search.countryCode.t # "string"
     \/ /\ identity.version = "v1"
        /\ Truthy(identity.credentialsData)
        /\ ~regionNamesOfThrows(toUpperCase(search.countryCode.s))
        /\ credentialsThrow(identity.credentialsData)

matchIdentityThrows(identity, search) ==
  IF walletAddressThrows(identity, search) THEN TRUE
  ELSE IF walletAddressRejects(identity, search) THEN FALSE
  ELSE IF legalNameThrows(identity, search) THEN TRUE
  ELSE IF legalNameRejects(identity, search) THEN FALSE
  ELSE IF registrationNumberThrows(identity, search) THEN TRUE
  ELSE IF registrationNumberRejects(identity, search) THEN FALSE
  ELSE countryCodeThrows(identity, search)

(***************************************************************************)
(* Program constants (src/src/constants.ts).                               *)
(***************************************************************************)
DEFAULT_BATCH_SIZE == 100

(***************************************************************************)
(* The data the two sources can hold.  Address i is "0x" followed by one   *)
(* letter: addresses 2k-1 and 2k are the same letter in lower and in upper *)
(* case, so they differ as strings and agree after lower-casing.           *)
(***************************************************************************)
Addr(i) ==
  LET k == (((i + 1) \div 2 - 1) % 26) + 1
  IN  <<"0", "x", IF i % 2 = 1 THEN LowerLetters[k] ELSE UpperLetters[k]>>

\* The addresses record i of the registry can carry: its own letter in lower
\* case, or "0xA", which agrees with record 1's "0xa" after lower-casing.
PrimaryAddresses(i) == {Addr(2 * i - 1), Addr(2)}
\* Key k of the legacy file: "0xA", "0xb", "0xB", ...
LegacyKey(k) == Addr(k + 1)

GermanEORI ==
  Obj(<< <<"gx:EORI", Obj(<< <<"type", Str(<<"g","x">>)>>,
                            <<"gx:eori", Str(<<"D","E","3","9">>)>>,
                            <<"gx:country", Str(<<"G","e","r","m","a","n","y">>)>> >>)>> >>)

\* The registry contract every record was written by.
ContractAddress == <<"0", "x", "C">>

\* Record i of the registry API, stored under wallet address a: the body of
\* the API carries its own version value, a nullable legal name and the
\* flattened credentials.
PrimaryRecord(i, a) ==
  [walletAddress |-> Str(a),
   contractAddress |-> Str(ContractAddress),
   txHash |-> i,
   legalName |-> CASE i % 3 = 1 -> Str(<<"D","e"," ","A","G">>)
                   [] i % 3 = 2 -> Null
                   [] OTHER -> Str(<<"a","g">>),
   credentialsData |-> IF i % 2 = 1 THEN GermanEORI ELSE Obj(<<>>),
   version |-> IF i % 2 = 1 THEN "v1" ELSE "v2"]

\* Entry k of the legacy JSON file: address -> legal name.
LegacyEntry(k) ==
  <<LegacyKey(k),
    IF k % 2 = 1 THEN <<"O","l","d"," ","A","G">> ELSE <<"O","l","d">>>>

\* Every assignment of addresses to n records.
RECURSIVE AddressLists(_)
AddressLists(n) ==
  IF n = 0 THEN {<<>>}
  ELSE {Append(q, x) : q \in AddressLists(n - 1), x \in PrimaryAddresses(n)}

\* Every registry of at most MaxRecords records.
Registries ==
  {[i \in 1..Len(as) |-> PrimaryRecord(i, as[i])] :
     as \in UNION {AddressLists(n) : n \in 0..MaxRecords}}

\* Every legacy file made of the first k entries, k <= MaxLegacy.
LegacyFiles == {[k \in 1..n |-> LegacyEntry(k)] : n \in 0..MaxLegacy}

(***************************************************************************)
(* The registry API (the list handler of the mock server, slice + meta).   *)
(***************************************************************************)
CeilDiv(a, b) == (a + b - 1) \div b

Slice(seq, startIndex, endIndex) ==
  \* Array.prototype.slice(startIndex, endIndex), 0-based, end exclusive
  LET lo == IF startIndex > Len(seq) THEN Len(seq) ELSE startIndex
      hi == IF endIndex > Len(seq) THEN Len(seq) ELSE endIndex
  IN  IF hi <= lo THEN <<>> ELSE SubSeq(seq, lo + 1, hi)

serverPage(records, page, limit) ==
  [data |-> Slice(records, (page - 1) * limit, (page - 1) * limit + limit),
   meta |-> [total |-> Len(records), page |-> page,
             lastPage |-> CeilDiv(Len(records), limit)]]

\* The identity endpoint: the first record stored under both addresses,
\* compared in lower case; <<>> when there is none (the 404 of the API).
serverIdentity(records, contractAddress, walletAddress) ==
  LET hits == SelectSeq(records, LAMBDA id :
                /\ toLowerCase(id.walletAddress.s) = toLowerCase(walletAddress)
                /\ toLowerCase(id.contractAddress.s) = toLowerCase(contractAddress))
  IN  IF hits = <<>> THEN <<>> ELSE <<Head(hits)>>

(***************************************************************************)
(* State.                                                                  *)
(***************************************************************************)
VARIABLES
  registry,      \* the records the registry API holds, in API order
  otherRegistry, \* the records a second registry API holds (read by call 2 only)
  legacyJson,    \* the legacy file: <<address, legal name>> entries, in key order
  config,        \* the PontusXRegistryConfig the hook is rendered with
  fetch,         \* the listFetcher calls: call -> state of that call
  depFetch,      \* the deprecatedFetcher call: "idle", "pending" or "settled"
  swrResponse,   \* SWR state of the registry key: data, error, isLoading
  deprecated,    \* SWR state of the legacy key: data, error, isLoading
  view,          \* what usePontusXRegistry(config) returned at the last render
  mIdentity,     \* matchIdentity: the identity argument
  mSearch,       \* matchIdentity: the criteria argument
  mDone,         \* matchIdentity: has been applied
  mResult,       \* matchIdentity: the value it returned
  mThrew,        \* matchIdentity: it threw instead of returning
  address,       \* usePontusXIdentity: the address argument
  lookup,        \* what usePontusXIdentity(address, config) returned at the last render
  byContract     \* usePontusXIdentityByContract: arguments, request, SWR state, return

vars ==
  <<registry, otherRegistry, legacyJson, config, fetch, depFetch, swrResponse, deprecated, view,
    mIdentity, mSearch, mDone, mResult, mThrew, address, lookup, byContract>>

Calls == {1, 2}

(***************************************************************************)
(* Errors.  An Error value records what its message interpolates: the      *)
(* status text, or the page number.  kind "undefined" and "false" are the  *)
(* two falsy values an error slot can hold.                                *)
(***************************************************************************)
NoError == [kind |-> "undefined", message |-> "", statusText |-> "", page |-> 0]
FalseError == [kind |-> "false", message |-> "", statusText |-> "", page |-> 0]
\* hooks.ts 143
FirstPageError(statusText) ==
  [kind |-> "Error", message |-> "Failed to fetch registry data: ",
   statusText |-> statusText, page |-> 0]
\* hooks.ts 166
PageError(page) ==
  [kind |-> "Error", message |-> "Failed to fetch page ", statusText |-> "", page |-> page]
\* hooks.ts 211
DeprecatedError ==
  [kind |-> "Error", message |-> "Failed to fetch deprecated registry",
   statusText |-> "", page |-> 0]
\* hooks.ts 194
IdentityNotFoundError ==
  [kind |-> "Error", message |-> "Identity not found", statusText |-> "", page |-> 0]
\* hooks.ts 196
IdentityFetchError(statusText) ==
  [kind |-> "Error", message |-> "Failed to fetch identity: ",
   statusText |-> statusText, page |-> 0]
\* fetch() itself rejecting (the transport failed)
NetworkError ==
  [kind |-> "Error", message |-> "fetch failed", statusText |-> "", page |-> 0]

\* What a request can come back with: a status, or "reject" when fetch rejects.
Outcomes == {"200", "404", "500", "reject"}
ResOk(r) == r = "200"

(***************************************************************************)
(* listFetcher (hooks.ts 128-185), one call.                               *)
(*   pc: "idle", "first" (awaiting page 1), "rest" (awaiting Promise.all), *)
(*       "resolved", "rejected"                                            *)
(*   requests: the requests issued, in order; resp: page -> "pending" or   *)
(*   its outcome.                                                          *)
(***************************************************************************)
IdleCall ==
  [pc |-> "idle", limit |-> 0, requests |-> <<>>, resp |-> <<>>, lastPage |-> 0,
   allIdentities |-> <<>>, error |-> NoError]

\* Mutant of tagV1: the record keeps the version of the API body.
tagKeepsBodyVersion(identity) == identity

\* hooks.ts 147-150, 176-179, 201: every record is re-tagged version 'v1'.
tagV1(identity) == [identity EXCEPT !.version = "v1"]
mapTagV1(data) == [i \in 1..Len(data) |-> tagV1(data[i])]

\* Mutant of remainingPages: the loop stops one page early (page < lastPage).
remainingPagesStopsEarly(lastPage) == IF lastPage > 1 THEN 2..(lastPage - 1) ELSE {}

\* hooks.ts 155, 159: the pages fetched after the first one.
remainingPages(lastPage) == IF lastPage > 1 THEN 2..lastPage ELSE {}

\* Mutant of listFetcherStart: page 1 is requested with the default limit.
listFetcherStartDefaultLimit(batchSize) ==
  [IdleCall EXCEPT !.pc = "first", !.limit = batchSize,
                   !.requests = <<[page |-> 1, limit |-> DEFAULT_BATCH_SIZE]>>,
                   !.resp = (1 :> "pending")]

\* hooks.ts 136-141: page 1 is requested with the batch size as limit.
listFetcherStart(batchSize) ==
  [IdleCall EXCEPT !.pc = "first", !.limit = batchSize,
                   !.requests = <<[page |-> 1, limit |-> batchSize]>>,
                   !.resp = (1 :> "pending")]

\* hooks.ts 175-181: the pages of Promise.all's result, appended in array order.
RECURSIVE combineResults(_, _, _, _)
combineResults(allIdentities, records, limit, pages) ==
  IF pages = {} THEN allIdentities
  ELSE LET page == CHOOSE q \in pages : \A o \in pages : q <= o
       IN  combineResults(allIdentities \o mapTagV1(serverPage(records, page, limit).data),
                          records, limit, pages \ {page})

\* Mutant of listFetcherFirst: allIdentities is one list of the module,
\* shared by all calls, instead of a local of the call (line 147).
listFetcherFirstSharedList(f, r, records) ==
  IF r = "reject" THEN
    [f EXCEPT !.pc = "rejected", !.resp[1] = r, !.error = NetworkError]
  ELSE IF ~ResOk(r) THEN
    [f EXCEPT !.pc = "rejected", !.resp[1] = r, !.error = FirstPageError(r)]
  ELSE
    LET firstJson == serverPage(records, 1, f.limit)
        lastPage == firstJson.meta.lastPage
        rest == remainingPages(lastPage)
    IN  [f EXCEPT !.pc = IF rest = {} THEN "resolved" ELSE "rest",
                  !.resp = [q \in {1} \cup rest |-> IF q = 1 THEN r ELSE "pending"],
                  !.lastPage = lastPage,
                  !.allIdentities = fetch[1].allIdentities \o fetch[2].allIdentities \o
                                      mapTagV1(firstJson.data),
                  !.requests = f.requests \o
                     [i \in 1..Cardinality(rest) |-> [page |-> i + 1, limit |-> f.limit]]]

\* Mutant of listFetcherFirst: the "if (!firstRes.ok) throw" of lines 142-144
\* is missing, so the body of an error response is read like any other.
listFetcherFirstNoOkCheck(f, r, records) ==
  IF r = "reject" THEN
    [f EXCEPT !.pc = "rejected", !.resp[1] = r, !.error = NetworkError]
  ELSE
    LET firstJson == serverPage(records, 1, f.limit)
        lastPage == firstJson.meta.lastPage
        rest == remainingPages(lastPage)
    IN  [f EXCEPT !.pc = IF rest = {} THEN "resolved" ELSE "rest",
                  !.resp = [q \in {1} \cup rest |-> IF q = 1 THEN r ELSE "pending"],
                  !.lastPage = lastPage,
                  !.allIdentities = mapTagV1(firstJson.data),
                  !.requests = f.requests \o
                     [i \in 1..Cardinality(rest) |-> [page |-> i + 1, limit |-> f.limit]]]

\* hooks.ts 141-172: the response to the page-1 request arrives.
listFetcherFirst(f, r, records) ==
  IF r = "reject" THEN
    [f EXCEPT !.pc = "rejected", !.resp[1] = r, !.error = NetworkError]
  ELSE IF ~ResOk(r) THEN
    [f EXCEPT !.pc = "rejected", !.resp[1] = r, !.error = FirstPageError(r)]
  ELSE
    LET firstJson == serverPage(records, 1, f.limit)
        lastPage == firstJson.meta.lastPage
        rest == remainingPages(lastPage)
    IN  [f EXCEPT !.pc = IF rest = {} THEN "resolved" ELSE "rest",
                  !.resp = [q \in {1} \cup rest |-> IF q = 1 THEN r ELSE "pending"],
                  !.lastPage = lastPage,
                  !.allIdentities = mapTagV1(firstJson.data),
                  !.requests = f.requests \o
                     [i \in 1..Cardinality(rest) |-> [page |-> i + 1, limit |-> f.limit]]]

\* Mutant of listFetcherPage: the "if (!res.ok) throw" of line 166 is missing,
\* so a page that came back with an error status counts as fetched and
\* contributes no records.
RECURSIVE combineOkResults(_, _, _, _, _)
combineOkResults(allIdentities, records, limit, pages, resp) ==
  IF pages = {} THEN allIdentities
  ELSE LET page == CHOOSE q \in pages : \A o \in pages : q <= o
           data == IF resp[page] = "200"
                   THEN [i \in 1..Len(serverPage(records, page, limit).data) |->
                           [serverPage(records, page, limit).data[i] EXCEPT !.version = "v1"]]
                   ELSE <<>>
       IN  combineOkResults(allIdentities \o data, records, limit, pages \ {page}, resp)

listFetcherPageNoOkCheck(f, p, r, records) ==
  LET resp == [f.resp EXCEPT ![p] = r]
      rest == IF f.lastPage > 1 THEN 2..f.lastPage ELSE {}
  IN  IF f.pc # "rest" THEN [f EXCEPT !.resp = resp]
      ELSE IF r = "reject" THEN
        [f EXCEPT !.pc = "rejected", !.resp = resp, !.error = NetworkError]
      ELSE IF \A q \in rest : resp[q] # "pending" THEN
        [f EXCEPT !.pc = "resolved", !.resp = resp,
                  !.allIdentities = combineOkResults(f.allIdentities, records, f.limit,
                                                     rest, resp)]
      ELSE [f EXCEPT !.resp = resp]

\* Mutant of listFetcherPage: a failure that arrives after the rejection
\* replaces the error.
listFetcherPageLastFailureWins(f, p, r, records) ==
  LET resp == [f.resp EXCEPT ![p] = r]
  IN  IF f.pc = "rejected" /\ ~ResOk(r) THEN
        [f EXCEPT !.resp = resp,
                  !.error = IF r = "reject" THEN NetworkError ELSE PageError(p)]
      ELSE IF f.pc # "rest" THEN [f EXCEPT !.resp = resp]
      ELSE IF r = "reject" THEN
        [f EXCEPT !.pc = "rejected", !.resp = resp, !.error = NetworkError]
      ELSE IF ~ResOk(r) THEN
        [f EXCEPT !.pc = "rejected", !.resp = resp, !.error = PageError(p)]
      ELSE IF \A q \in remainingPages(f.lastPage) : ResOk(resp[q]) THEN
        [f EXCEPT !.pc = "resolved", !.resp = resp,
                  !.allIdentities = combineResults(f.allIdentities, records, f.limit,
                                                   remainingPages(f.lastPage))]
      ELSE [f EXCEPT !.resp = resp]

\* Mutant of listFetcherPage: the records of a page are appended when its
\* response arrives, not when Promise.all has resolved.
listFetcherPageAppendsOnArrival(f, p, r, records) ==
  LET resp == [f.resp EXCEPT ![p] = r]
  IN  IF f.pc # "rest" THEN [f EXCEPT !.resp = resp]
      ELSE IF r = "reject" THEN
        [f EXCEPT !.pc = "rejected", !.resp = resp, !.error = NetworkError]
      ELSE IF ~ResOk(r) THEN
        [f EXCEPT !.pc = "rejected", !.resp = resp, !.error = PageError(p)]
      ELSE [f EXCEPT !.pc = IF \A q \in remainingPages(f.lastPage) : ResOk(resp[q])
                            THEN "resolved" ELSE "rest",
                     !.resp = resp,
                     !.allIdentities = f.allIdentities \o
                                         mapTagV1(serverPage(records, p, f.limit).data)]

\* hooks.ts 165-181: the response to the request of page p >= 2 arrives.
\* Promise.all rejects with the first rejection and resolves once every page
\* has been fulfilled; a response that arrives after the rejection changes
\* nothing but the request's own state.
listFetcherPage(f, p, r, records) ==
  LET resp == [f.resp EXCEPT ![p] = r]
  IN  IF f.pc # "rest" THEN [f EXCEPT !.resp = resp]
      ELSE IF r = "reject" THEN
        [f EXCEPT !.pc = "rejected", !.resp = resp, !.error = NetworkError]
      ELSE IF ~ResOk(r) THEN
        [f EXCEPT !.pc = "rejected", !.resp = resp, !.error = PageError(p)]
      ELSE IF \A q \in remainingPages(f.lastPage) : ResOk(resp[q]) THEN
        [f EXCEPT !.pc = "resolved", !.resp = resp,
                  !.allIdentities = combineResults(f.allIdentities, records, f.limit,
                                                   remainingPages(f.lastPage))]
      ELSE [f EXCEPT !.resp = resp]

(***************************************************************************)
(* deprecatedFetcher (hooks.ts 207-218).                                   *)
(***************************************************************************)
\* Mutant of deprecatedFetcherData: the keys are lower-cased.
deprecatedFetcherDataLowerCased(json) ==
  [k \in 1..Len(json) |->
     [walletAddress |-> Str(toLowerCase(json[k][1])), legalName |-> Str(json[k][2]),
      version |-> "0.x"]]

\* Lines 213-217: Object.entries(json).map(...), one record per key.
deprecatedFetcherData(json) ==
  [k \in 1..Len(json) |->
     [walletAddress |-> Str(json[k][1]), legalName |-> Str(json[k][2]), version |-> "0.x"]]

(***************************************************************************)
(* identityFetcher (hooks.ts 190-202): r is what the request came back     *)
(* with and json the body of a successful response.  The result is the     *)
(* settled promise: fulfilled with data = <<identity>>, or rejected with   *)
(* an error.                                                               *)
(***************************************************************************)
IdentityOutcomes == Outcomes \cup {"403"}

\* Mutant of identityFetcher: status 404 is not told apart from the others.
identityFetcherNo404Case(r, json) ==
  IF r = "reject" THEN [ok |-> FALSE, data |-> <<>>, error |-> NetworkError]
  ELSE IF ~ResOk(r)
       THEN [ok |-> FALSE, data |-> <<>>, error |-> IdentityFetchError(r)]
  ELSE [ok |-> TRUE, data |-> <<tagV1(json)>>, error |-> NoError]

identityFetcher(r, json) ==
  IF r = "reject" THEN [ok |-> FALSE, data |-> <<>>, error |-> NetworkError]
  ELSE IF ~ResOk(r)
       THEN IF r = "404"
            THEN [ok |-> FALSE, data |-> <<>>, error |-> IdentityNotFoundError]
            ELSE [ok |-> FALSE, data |-> <<>>, error |-> IdentityFetchError(r)]
  ELSE [ok |-> TRUE, data |-> <<tagV1(json)>>, error |-> NoError]

(***************************************************************************)
(* SWR (external cache): the state a key's hook returns.  data is          *)
(* undefined until a fetch resolved; a rejected fetch sets error and       *)
(* leaves data alone; isLoading is true while the first fetch is running.  *)
(***************************************************************************)
UndefinedData == [defined |-> FALSE, list |-> <<>>]
Data(list) == [defined |-> TRUE, list |-> list]
SwrInitial == [data |-> UndefinedData, error |-> NoError, isLoading |-> TRUE]
swrResolved(s, list) == [data |-> Data(list), error |-> NoError, isLoading |-> FALSE]
\* Mutant of swrRejected: a rejected fetcher leaves isLoading as it was.
swrRejectedKeepsLoading(s, err) == [s EXCEPT !.error = err]

swrRejected(s, err) == [s EXCEPT !.error = err, !.isLoading = FALSE]

\* The SWR state of the registry key once the listFetcher call f has moved.
swrAfterCall(s, f) ==
  CASE f.pc = "resolved" -> swrResolved(s, f.allIdentities)
    [] f.pc = "rejected" -> swrRejected(s, f.error)
    [] OTHER -> s

(***************************************************************************)
(* usePontusXRegistry (hooks.ts 252-314).                                  *)
(***************************************************************************)
NoCriteria ==
  [walletAddress |-> Undefined, legalName |-> Undefined,
   registrationNumber |-> Undefined, countryCode |-> Undefined]
\* config.search: absent, or a criteria object
NoSearch == [present |-> FALSE, criteria |-> NoCriteria]
Search(criteria) == [present |-> TRUE, criteria |-> criteria]

\* swrResponse.data || []
dataOrEmpty(data) == IF data.defined THEN data.list ELSE <<>>

\* Mutant of currentAddresses: the addresses are collected as stored.
currentAddressesAsStored(currentData) ==
  {currentData[i].walletAddress.s : i \in 1..Len(currentData)}

\* hooks.ts 283-285: the lower-cased addresses of the primary records
currentAddresses(currentData) ==
  {toLowerCase(currentData[i].walletAddress.s) : i \in 1..Len(currentData)}

\* Mutant of isUniqueDeprecated: the legacy address is looked up as stored.
isUniqueDeprecatedAsStored(id, addresses) == id.walletAddress.s \notin addresses

\* hooks.ts 287-289: the legacy entries whose lower-cased address is not primary
isUniqueDeprecated(id, addresses) == toLowerCase(id.walletAddress.s) \notin addresses

uniqueDeprecated(deprecatedData, addresses) ==
  LET keep(id) == isUniqueDeprecated(id, addresses)
  IN  SelectSeq(deprecatedData, keep)

\* Mutant of mergedData: without primary data there is no merge.
mergedDataNeedsPrimary(cfg, data, deprecatedData) ==
  IF cfg.includeDeprecated # "true" \/ ~deprecatedData.defined \/ ~data.defined
  THEN dataOrEmpty(data)
  ELSE LET currentData == dataOrEmpty(data)
       IN  currentData \o uniqueDeprecated(deprecatedData.list, currentAddresses(currentData))

\* Mutant of mergedData: the legacy entries come first.
mergedDataLegacyFirst(cfg, data, deprecatedData) ==
  IF cfg.includeDeprecated # "true" \/ ~deprecatedData.defined THEN dataOrEmpty(data)
  ELSE LET currentData == dataOrEmpty(data)
       IN  uniqueDeprecated(deprecatedData.list, currentAddresses(currentData)) \o currentData

\* hooks.ts 277-292: the merge, before the search filter
mergedData(cfg, data, deprecatedData) ==
  IF cfg.includeDeprecated # "true" \/ ~deprecatedData.defined THEN dataOrEmpty(data)
  ELSE LET currentData == dataOrEmpty(data)
       IN  currentData \o uniqueDeprecated(deprecatedData.list, currentAddresses(currentData))

\* hooks.ts 295-301: the search filter
searchFilter(cfg, result) ==
  IF cfg.search.present
  THEN LET keep(identity) == matchIdentity(identity, cfg.search.criteria)
       IN  SelectSeq(result, keep)
  ELSE result

combinedData(cfg, data, deprecatedData) ==
  searchFilter(cfg, mergedData(cfg, data, deprecatedData))

\* Mutant of combinedError: the legacy error comes first.
combinedErrorLegacyFirst(cfg, error, deprecatedError) ==
  IF cfg.includeDeprecated = "true" /\ deprecatedError.kind = "Error" THEN deprecatedError
  ELSE IF error.kind = "Error" THEN error
  ELSE CASE cfg.includeDeprecated = "true" -> deprecatedError
         [] cfg.includeDeprecated = "false" -> FalseError
         [] OTHER -> NoError

\* hooks.ts 312: swrResponse.error || (config?.includeDeprecated && deprecatedError)
combinedError(cfg, error, deprecatedError) ==
  IF error.kind = "Error" THEN error
  ELSE CASE cfg.includeDeprecated = "true" -> deprecatedError
         [] cfg.includeDeprecated = "false" -> FalseError
         [] OTHER -> NoError

\* Mutant of combinedIsLoading: the legacy fetch counts whatever the config.
combinedIsLoadingAlways(cfg, isLoading, deprecatedIsLoading) ==
  isLoading \/ deprecatedIsLoading

\* hooks.ts 309-311
combinedIsLoading(cfg, isLoading, deprecatedIsLoading) ==
  isLoading \/ (cfg.includeDeprecated = "true" /\ deprecatedIsLoading)

usePontusXRegistry(cfg, swr, dep) ==
  [data |-> combinedData(cfg, swr.data, dep.data),
   isLoading |-> combinedIsLoading(cfg, swr.isLoading, dep.isLoading),
   error |-> combinedError(cfg, swr.error, dep.error)]

\* hooks.ts 262: config?.batchSize || DEFAULT_BATCH_SIZE (0 stands for an
\* absent batch size)
batchSizeOf(cfg) == IF cfg.batchSize # 0 THEN cfg.batchSize ELSE DEFAULT_BATCH_SIZE

\* Mutant of swrKey: the search criteria are part of the key.
swrKeyWithSearch(cfg) == <<"/identities", cfg.search>>

\* hooks.ts 255-260: the SWR key is the URL of the list endpoint, made of the
\* base URL and the API version (both left at their defaults).
swrKey(cfg) == <<"/identities", NoSearch>>

(***************************************************************************)
(* usePontusXIdentity (hooks.ts 332-354).  An identity that may be         *)
(* undefined is a sequence of length 0 or 1.                               *)
(***************************************************************************)
\* Mutant of findIdentity: the stored address is compared as stored.
findIdentityAsStored(data, normalizedAddress) ==
  LET hits == SelectSeq(data, LAMBDA entry : entry.walletAddress.s = normalizedAddress)
  IN  IF hits = <<>> THEN <<>> ELSE <<Head(hits)>>

\* Lines 343-346: data.find(...)
findIdentity(data, normalizedAddress) ==
  LET hits == SelectSeq(data, LAMBDA entry :
                toLowerCase(entry.walletAddress.s) = normalizedAddress)
  IN  IF hits = <<>> THEN <<>> ELSE <<Head(hits)>>

\* reg is what usePontusXRegistry(config) returned; its data is always a
\* list, so !data (line 339) never holds.
usePontusXIdentity(addr, reg) ==
  LET identity == IF ~Truthy(addr) THEN <<>>
                  ELSE findIdentity(reg.data, toLowerCase(addr.s))
  IN  [identity |-> identity,
       isLoading |-> reg.isLoading,
       error |-> reg.error,
       isFound |-> identity # <<>>,
       legalName |-> IF identity # <<>> THEN Head(identity).legalName ELSE Undefined]

(***************************************************************************)
(* usePontusXIdentityByContract (hooks.ts 376-416).                        *)
(***************************************************************************)
\* Mutant of identityApiUrl: only the contract address is checked.
identityApiUrlContractOnly(contractAddress, walletAddress) ==
  IF ~Truthy(contractAddress) THEN <<>>
  ELSE <<[contractAddress |-> contractAddress.s, walletAddress |-> walletAddress.s]>>

\* Lines 383-390: the SWR key, <<>> for null, else the URL with both
\* addresses in its path.
identityApiUrl(contractAddress, walletAddress) ==
  IF ~Truthy(contractAddress) \/ ~Truthy(walletAddress) THEN <<>>
  ELSE <<[contractAddress |-> contractAddress.s, walletAddress |-> walletAddress.s]>>

\* SWR with a null key: nothing is fetched and nothing is loading.
SwrNoKey == [data |-> UndefinedData, error |-> NoError, isLoading |-> FALSE]

\* Lines 409-415: swr.data.list is <<>> or <<identity>>.
identityByContractReturn(swr) ==
  [identity |-> swr.data.list,
   isLoading |-> swr.isLoading,
   error |-> swr.error,
   isFound |-> swr.data.defined,
   legalName |-> IF swr.data.defined THEN Head(swr.data.list).legalName ELSE Undefined]

\* The hook at mount.
\*   pc: "idle", "pending" (identityFetcher awaits fetch), "settled"
\*   requests: the URLs requested, in order
\*   response: what the request came back with, "none" before that
usePontusXIdentityByContract(contractAddress, walletAddress) ==
  LET swr == IF identityApiUrl(contractAddress, walletAddress) = <<>>
             THEN SwrNoKey ELSE SwrInitial
  IN  [contractAddress |-> contractAddress, walletAddress |-> walletAddress,
       pc |-> "idle", requests |-> <<>>, response |-> "none", swr |-> swr,
       return |-> identityByContractReturn(swr)]

(***************************************************************************)
(* The configurations the hook is rendered with.                           *)
(***************************************************************************)
SearchOptions ==
  {NoSearch,
   Search([NoCriteria EXCEPT !.legalName = Str(<<"a","g">>)]),
   Search([NoCriteria EXCEPT !.walletAddress = Str(<<"0","X","A">>),
                             !.countryCode = Str(<<"d","e">>)])}

Configs ==
  [batchSize : 0..MaxBatch, includeDeprecated : {"undefined", "false", "true"},
   search : SearchOptions]

(***************************************************************************)
(* The inputs matchIdentity is applied to.                                 *)
(***************************************************************************)
MatchAddresses == {Str(<<"0","x","a">>), Str(<<"0","x","A","b">>)}
MatchLegalNames == {Null, Str(<<>>), Str(<<"D","e"," ","A","G">>)}
MatchCredentials ==
  {Undefined, Null, Obj(<<>>), GermanEORI,
   \* a null credential and a credential that is a string, not an object
   Obj(<< <<"gx:EORI", Null>>, <<"note", Str(<<"D","E","3","9">>)>> >>),
   \* a code in lower case with blanks around it, next to a number
   Obj(<< <<"gx:VatID", Obj(<< <<"n", Num>>,
                              <<"gx:countryCode", Str(<<" ","d","e"," ">>)>> >>)>> >>),
   \* the exact code, in the second credential
   Obj(<< <<"gx:EORI", Obj(<<>>)>>,
          <<"gx:LeiCode", Obj(<< <<"gx:countryCode", Str(<<"D","E">>)>>,
                                <<"schema:leiCode", Str(<<"3","9","F","R">>)>> >>)>> >>),
   \* the country name inside a longer text, a text containing "xx" and the
   \* text "invalid"
   Obj(<< <<"gx:Address", Obj(<< <<"text", Str(<<"i","n"," ","G","E","R","M","A","N","Y">>)>>,
                                <<"id", Str(<<"a","x","X","b">>)>>,
                                <<"status", Str(<<"i","n","v","a","l","i","d">>)>> >>)>> >>)}

MatchIdentities ==
  {[walletAddress |-> a, txHash |-> 1, legalName |-> n, credentialsData |-> c,
    version |-> "v1"] : a \in MatchAddresses, n \in MatchLegalNames, c \in MatchCredentials}
  \cup
  {[walletAddress |-> a, legalName |-> n, version |-> "0.x"] :
     a \in MatchAddresses, n \in MatchLegalNames}

MatchSearches ==
  [walletAddress : {Undefined, Str(<<>>), Str(<<"0","X","A">>), Str(<<"0","x","a","B">>)},
   legalName : {Undefined, Str(<<>>), Str(<<"a","G">>), Str(<<"z">>)},
   registrationNumber : {Undefined, Str(<<>>), Str(<<"e","3">>), Str(<<"9","f","r">>)},
   countryCode : {Undefined, Str(<<>>), Str(<<"d","e">>), Str(<<"D","E">>), Str(<<"F","R">>),
                  Str(<<"x","x">>), Str(<<"I","N","V","A","L","I","D">>)}]

\* The addresses usePontusXIdentity is asked for.
LookupAddresses ==
  {Undefined, Str(<<>>), Str(<<"0","X","A">>), Str(<<"0","x","b">>), Str(<<"0","x","z">>)}

\* The addresses usePontusXIdentityByContract is asked for.
ContractInputs == {Undefined, Str(<<>>), Str(<<"0","X","c">>), Str(<<"0","x","d">>)}
WalletInputs ==
  {Undefined, Str(<<>>), Str(<<"0","X","A">>), Str(<<"0","x","b">>), Str(<<"0","x","z">>)}

(***************************************************************************)
(* Specification Spec: the hook mounted once; SWR runs listFetcher (call   *)
(* 1) and deprecatedFetcher, and every change of their state re-renders    *)
(* the hook.                                                               *)
(***************************************************************************)
IdleMatch ==
  /\ mIdentity = [walletAddress |-> Str(<<>>), legalName |-> Null, version |-> "0.x"]
  /\ mSearch = NoCriteria
  /\ mDone = FALSE
  /\ mResult = FALSE
  /\ mThrew = FALSE

\* usePontusXIdentityByContract rendered without addresses.
IdleByContract == byContract = usePontusXIdentityByContract(Undefined, Undefined)

Init ==
  /\ registry \in Registries
  /\ otherRegistry = <<>>
  /\ legacyJson \in LegacyFiles
  /\ config \in Configs
  /\ fetch = [c \in Calls |-> IdleCall]
  /\ depFetch = "idle"
  /\ swrResponse = SwrInitial
  /\ deprecated = SwrInitial
  /\ view = usePontusXRegistry(config, swrResponse, deprecated)
  /\ address = Undefined
  /\ lookup = usePontusXIdentity(address, view)
  /\ IdleMatch
  /\ IdleByContract

\* Mutant of Render: usePontusXIdentity looks the address up in the merged
\* data, before the search filter.
RenderLookupUnfiltered ==
  /\ view' = usePontusXRegistry(config', swrResponse', deprecated')
  /\ lookup' = usePontusXIdentity(address,
                  [view' EXCEPT !.data = mergedData(config', swrResponse'.data,
                                                    deprecated'.data)])

\* The re-render that follows every change of the SWR state or of the
\* configuration: usePontusXIdentity calls usePontusXRegistry(config).
Render ==
  /\ view' = usePontusXRegistry(config', swrResponse', deprecated')
  /\ lookup' = usePontusXIdentity(address, view')

\* SWR calls the fetcher of the registry key (hooks.ts 260-262).
FetchStart ==
  /\ fetch[1].pc = "idle"
  /\ fetch' = [fetch EXCEPT ![1] = listFetcherStart(batchSizeOf(config))]
  /\ UNCHANGED <<registry, otherRegistry, legacyJson, config, depFetch, swrResponse, deprecated,
                 mIdentity, mSearch, mDone, mResult, mThrew, address, byContract>>
  /\ Render

\* The page-1 request of call 1 completes.
FirstResponse ==
  /\ fetch[1].pc = "first"
  /\ \E r \in Outcomes :
       /\ fetch' = [fetch EXCEPT ![1] = listFetcherFirst(fetch[1], r, registry)]
       /\ swrResponse' = swrAfterCall(swrResponse, fetch'[1])
  /\ UNCHANGED <<registry, otherRegistry, legacyJson, config, depFetch, deprecated,
                 mIdentity, mSearch, mDone, mResult, mThrew, address, byContract>>
  /\ Render

\* The request of a page >= 2 of call 1 completes.
PageResponse ==
  /\ \E p \in DOMAIN fetch[1].resp \ {1}, r \in Outcomes :
       /\ fetch[1].resp[p] = "pending"
       /\ fetch' = [fetch EXCEPT ![1] = listFetcherPage(fetch[1], p, r, registry)]
       /\ swrResponse' = swrAfterCall(swrResponse, fetch'[1])
  /\ UNCHANGED <<registry, otherRegistry, legacyJson, config, depFetch, deprecated,
                 mIdentity, mSearch, mDone, mResult, mThrew, address, byContract>>
  /\ Render

\* SWR calls deprecatedFetcher (hooks.ts 226-236, 210).
DeprecatedStart ==
  /\ depFetch = "idle"
  /\ depFetch' = "pending"
  /\ UNCHANGED <<registry, otherRegistry, legacyJson, config, fetch, swrResponse, deprecated,
                 mIdentity, mSearch, mDone, mResult, mThrew, address, byContract>>
  /\ Render

\* The request of the legacy file completes (hooks.ts 210-217).
DeprecatedResponse ==
  /\ depFetch = "pending"
  /\ depFetch' = "settled"
  /\ \E r \in Outcomes :
       deprecated' = IF r = "reject" THEN swrRejected(deprecated, NetworkError)
                     ELSE IF ~ResOk(r) THEN swrRejected(deprecated, DeprecatedError)
                     ELSE swrResolved(deprecated, deprecatedFetcherData(legacyJson))
  /\ UNCHANGED <<registry, otherRegistry, legacyJson, config, fetch, swrResponse,
                 mIdentity, mSearch, mDone, mResult, mThrew, address, byContract>>
  /\ Render

\* The component passes other search criteria: the hook is rendered again.
\* SWR starts a new fetch only for a new key (hooks.ts 260-261).
ChangeSearch ==
  /\ \E s \in SearchOptions \ {config.search} : config' = [config EXCEPT !.search = s]
  /\ IF swrKey(config') = swrKey(config)
     THEN UNCHANGED <<fetch, swrResponse>>
     ELSE /\ fetch' = [fetch EXCEPT ![1] = IdleCall]
          /\ swrResponse' = SwrInitial
  /\ UNCHANGED <<registry, otherRegistry, legacyJson, depFetch, deprecated,
                 mIdentity, mSearch, mDone, mResult, mThrew, address, byContract>>
  /\ Render

Next ==
  \/ FetchStart
  \/ FirstResponse
  \/ PageResponse
  \/ DeprecatedStart
  \/ DeprecatedResponse
  \/ ChangeSearch

Spec == Init /\ [][Next]_vars

(***************************************************************************)
(* Specification SpecMatch: matchIdentity applied to one identity and one  *)
(* criteria set.                                                           *)
(***************************************************************************)
InitMatch ==
  /\ registry = <<>>
  /\ otherRegistry = <<>>
  /\ legacyJson = <<>>
  /\ config = [batchSize |-> 0, includeDeprecated |-> "undefined", search |-> NoSearch]
  /\ fetch = [c \in Calls |-> IdleCall]
  /\ depFetch = "idle"
  /\ swrResponse = SwrInitial
  /\ deprecated = SwrInitial
  /\ view = usePontusXRegistry(config, swrResponse, deprecated)
  /\ address = Undefined
  /\ lookup = usePontusXIdentity(address, view)
  /\ mIdentity \in MatchIdentities
  /\ mSearch \in MatchSearches
  /\ mDone = FALSE
  /\ mResult = FALSE
  /\ mThrew = FALSE
  /\ IdleByContract

Match ==
  /\ ~mDone
  /\ mDone' = TRUE
  /\ mThrew' = matchIdentityThrows(mIdentity, mSearch)
  /\ mResult' = (~mThrew' /\ matchIdentity(mIdentity, mSearch))
  /\ UNCHANGED <<registry, otherRegistry, legacyJson, config, fetch, depFetch, swrResponse, deprecated,
                 view, mIdentity, mSearch, address, lookup, byContract>>

NextMatch == Match

SpecMatch == InitMatch /\ [][NextMatch]_vars

(***************************************************************************)
(* Specification SpecLookup: Spec with usePontusXIdentity asked for an     *)
(* address, over a registry of more than one page.                         *)
(***************************************************************************)
InitLookup ==
  /\ registry \in Registries
  /\ otherRegistry = <<>>
  /\ legacyJson \in LegacyFiles
  /\ config \in {c \in Configs : c.batchSize = MaxBatch}
  /\ fetch = [c \in Calls |-> IdleCall]
  /\ depFetch = "idle"
  /\ swrResponse = SwrInitial
  /\ deprecated = SwrInitial
  /\ view = usePontusXRegistry(config, swrResponse, deprecated)
  /\ address \in LookupAddresses
  /\ lookup = usePontusXIdentity(address, view)
  /\ IdleMatch
  /\ IdleByContract

SpecLookup == InitLookup /\ [][Next]_vars

(***************************************************************************)
(* Specification SpecIdentity: usePontusXIdentityByContract mounted once;  *)
(* SWR runs identityFetcher when the key is not null.                      *)
(***************************************************************************)
InitIdentity ==
  /\ registry \in Registries
  /\ otherRegistry = <<>>
  /\ legacyJson = <<>>
  /\ config = [batchSize |-> 0, includeDeprecated |-> "undefined", search |-> NoSearch]
  /\ fetch = [c \in Calls |-> IdleCall]
  /\ depFetch = "idle"
  /\ swrResponse = SwrInitial
  /\ deprecated = SwrInitial
  /\ view = usePontusXRegistry(config, swrResponse, deprecated)
  /\ address = Undefined
  /\ lookup = usePontusXIdentity(address, view)
  /\ IdleMatch
  /\ \E c \in ContractInputs, w \in WalletInputs :
       byContract = usePontusXIdentityByContract(c, w)

\* SWR calls identityFetcher with the key (hooks.ts 392-394, 191).
IdentityStart ==
  /\ byContract.pc = "idle"
  /\ identityApiUrl(byContract.contractAddress, byContract.walletAddress) # <<>>
  /\ byContract' =
       [byContract EXCEPT
          !.pc = "pending",
          !.requests = @ \o identityApiUrl(byContract.contractAddress,
                                           byContract.walletAddress)]
  /\ UNCHANGED <<registry, otherRegistry, legacyJson, config, fetch, depFetch, swrResponse, deprecated,
                 view, lookup, mIdentity, mSearch, mDone, mResult, mThrew, address>>

\* The request completes: the API answers 200 only with a record it holds.
IdentityResponse ==
  /\ byContract.pc = "pending"
  /\ \E r \in IdentityOutcomes :
       LET url == byContract.requests[Len(byContract.requests)]
           found == serverIdentity(registry, url.contractAddress, url.walletAddress)
           settled == identityFetcher(r, IF found = <<>> THEN Null ELSE Head(found))
           swr == IF settled.ok THEN swrResolved(byContract.swr, settled.data)
                  ELSE swrRejected(byContract.swr, settled.error)
       IN  /\ r = "200" => found # <<>>
           /\ byContract' = [byContract EXCEPT !.pc = "settled", !.response = r, !.swr = swr,
                                               !.return = identityByContractReturn(swr)]
  /\ UNCHANGED <<registry, otherRegistry, legacyJson, config, fetch, depFetch, swrResponse, deprecated,
                 view, lookup, mIdentity, mSearch, mDone, mResult, mThrew, address>>

NextIdentity ==
  \/ IdentityStart
  \/ IdentityResponse

SpecIdentity == InitIdentity /\ [][NextIdentity]_vars

(***************************************************************************)
(* Specification SpecLibrary: usePontusXRegistry and                       *)
(* usePontusXIdentityByContract mounted side by side.                      *)
(***************************************************************************)
InitLibrary ==
  /\ registry \in Registries
  /\ otherRegistry = <<>>
  /\ legacyJson \in LegacyFiles
  /\ config = [batchSize |-> 1, includeDeprecated |-> "true", search |-> NoSearch]
  /\ fetch = [c \in Calls |-> IdleCall]
  /\ depFetch = "idle"
  /\ swrResponse = SwrInitial
  /\ deprecated = SwrInitial
  /\ view = usePontusXRegistry(config, swrResponse, deprecated)
  /\ address = Undefined
  /\ lookup = usePontusXIdentity(address, view)
  /\ IdleMatch
  /\ byContract = usePontusXIdentityByContract(Str(ContractAddress), Str(Addr(3)))

NextLibrary ==
  \/ FetchStart
  \/ FirstResponse
  \/ PageResponse
  \/ DeprecatedStart
  \/ DeprecatedResponse
  \/ IdentityStart
  \/ IdentityResponse

SpecLibrary == InitLibrary /\ [][NextLibrary]_vars

(***************************************************************************)
(* Specification SpecSearch: the hook has fetched one identity, from the   *)
(* registry or from the legacy file, and is rendered with search criteria. *)
(***************************************************************************)
InitSearch ==
  /\ mIdentity \in {id \in MatchIdentities : id.version = "v1" \/ id.legalName.t = "string"}
  /\ mSearch \in MatchSearches
  /\ mDone = FALSE
  /\ mResult = FALSE
  /\ mThrew = FALSE
  /\ registry = IF mIdentity.version = "v1" THEN <<mIdentity>> ELSE <<>>
  /\ otherRegistry = <<>>
  /\ legacyJson = IF mIdentity.version = "v1" THEN <<>>
                  ELSE << <<mIdentity.walletAddress.s, mIdentity.legalName.s>> >>
  /\ config = [batchSize |-> 0, includeDeprecated |-> "true", search |-> NoSearch]
  /\ fetch = [c \in Calls |->
               IF c = 1
               THEN listFetcherFirst(listFetcherStart(batchSizeOf(config)), "200", registry)
               ELSE IdleCall]
  /\ depFetch = "settled"
  /\ swrResponse = swrAfterCall(SwrInitial, fetch[1])
  /\ deprecated = swrResolved(SwrInitial, deprecatedFetcherData(legacyJson))
  /\ view = usePontusXRegistry(config, swrResponse, deprecated)
  /\ address = Undefined
  /\ lookup = usePontusXIdentity(address, view)
  /\ IdleByContract

\* The hook is rendered with the criteria: the filter applies matchIdentity
\* to the identity (hooks.ts 295-299).  A throw inside the filter leaves no
\* new return value.
ApplySearch ==
  /\ ~mDone
  /\ mDone' = TRUE
  /\ mThrew' = matchIdentityThrows(mIdentity, mSearch)
  /\ mResult' = (~mThrew' /\ matchIdentity(mIdentity, mSearch))
  /\ config' = [config EXCEPT !.search = Search(mSearch)]
  /\ UNCHANGED <<registry, otherRegistry, legacyJson, fetch, depFetch, swrResponse, deprecated,
                 mIdentity, mSearch, address, byContract>>
  /\ IF mThrew' THEN UNCHANGED <<view, lookup>> ELSE Render

NextSearch == ApplySearch

SpecSearch == InitSearch /\ [][NextSearch]_vars

(***************************************************************************)
(* Specification SpecPages: the hook over a registry that is served one    *)
(* record a page, next to the legacy file.                                 *)
(***************************************************************************)
InitPages ==
  /\ registry \in Registries
  /\ otherRegistry = <<>>
  /\ legacyJson \in LegacyFiles
  /\ config = [batchSize |-> 1, includeDeprecated |-> "true", search |-> NoSearch]
  /\ fetch = [c \in Calls |-> IdleCall]
  /\ depFetch = "idle"
  /\ swrResponse = SwrInitial
  /\ deprecated = SwrInitial
  /\ view = usePontusXRegistry(config, swrResponse, deprecated)
  /\ address = Undefined
  /\ lookup = usePontusXIdentity(address, view)
  /\ IdleMatch
  /\ IdleByContract

NextPages ==
  \/ FetchStart
  \/ FirstResponse
  \/ PageResponse
  \/ DeprecatedStart
  \/ DeprecatedResponse

SpecPages == InitPages /\ [][NextPages]_vars

(***************************************************************************)
(* Specification SpecTermination: the hook over a registry served one      *)
(* record a page, where every request of a page that was issued completes. *)
(* SWR's calls of the two fetchers and the completion of the requests of   *)
(* page 1 and of the later pages are weakly fair; nothing is assumed of    *)
(* the completion of the request of the legacy file.                       *)
(***************************************************************************)
InitTermination ==
  /\ registry \in Registries
  /\ otherRegistry = <<>>
  /\ legacyJson \in LegacyFiles
  /\ config \in {c \in Configs : c.batchSize = 1 /\ c.search = NoSearch}
  /\ fetch = [c \in Calls |-> IdleCall]
  /\ depFetch = "idle"
  /\ swrResponse = SwrInitial
  /\ deprecated = SwrInitial
  /\ view = usePontusXRegistry(config, swrResponse, deprecated)
  /\ address = Undefined
  /\ lookup = usePontusXIdentity(address, view)
  /\ IdleMatch
  /\ IdleByContract

NextTermination ==
  \/ FetchStart
  \/ FirstResponse
  \/ PageResponse
  \/ DeprecatedStart
  \/ DeprecatedResponse

SpecTermination ==
  /\ InitTermination
  /\ [][NextTermination]_vars
  /\ WF_vars(FetchStart)
  /\ WF_vars(DeprecatedStart)
  /\ WF_vars(FirstResponse)
  /\ WF_vars(PageResponse)

(***************************************************************************)
(* Specification SpecCalls: two calls of listFetcher run side by side,     *)
(* call 1 against the registry and call 2 against a second registry, which *)
(* may hold the same records; their responses arrive in any order.         *)
(***************************************************************************)
\* The records the endpoint of call c serves.
EndpointRecords(c) == IF c = 1 THEN registry ELSE otherRegistry

\* The batch sizes call c is made with.
CallBatchSizes(c) == IF c = 1 THEN {MaxBatch} ELSE {MaxBatch - 1, MaxBatch} \ {0}

InitCalls ==
  /\ registry \in Registries
  /\ otherRegistry \in Registries
  /\ legacyJson = <<>>
  /\ config = [batchSize |-> 0, includeDeprecated |-> "undefined", search |-> NoSearch]
  /\ fetch = [c \in Calls |-> IdleCall]
  /\ depFetch = "idle"
  /\ swrResponse = SwrInitial
  /\ deprecated = SwrInitial
  /\ view = usePontusXRegistry(config, swrResponse, deprecated)
  /\ address = Undefined
  /\ lookup = usePontusXIdentity(address, view)
  /\ IdleMatch
  /\ IdleByContract

\* listFetcher(url, batchSize) is called (hooks.ts 128-141).
CallStart(c) ==
  /\ fetch[c].pc = "idle"
  /\ \E b \in CallBatchSizes(c) : fetch' = [fetch EXCEPT ![c] = listFetcherStart(b)]
  /\ UNCHANGED <<registry, otherRegistry, legacyJson, config, depFetch, swrResponse,
                 deprecated, view, lookup, mIdentity, mSearch, mDone, mResult, mThrew,
                 address, byContract>>

\* The page-1 request of call c completes.
CallFirstResponse(c) ==
  /\ fetch[c].pc = "first"
  /\ \E r \in Outcomes :
       fetch' = [fetch EXCEPT ![c] = listFetcherFirst(fetch[c], r, EndpointRecords(c))]
  /\ UNCHANGED <<registry, otherRegistry, legacyJson, config, depFetch, swrResponse,
                 deprecated, view, lookup, mIdentity, mSearch, mDone, mResult, mThrew,
                 address, byContract>>

\* The request of a page >= 2 of call c completes.
CallPageResponse(c) ==
  /\ \E p \in DOMAIN fetch[c].resp \ {1}, r \in Outcomes :
       /\ fetch[c].resp[p] = "pending"
       /\ fetch' = [fetch EXCEPT ![c] = listFetcherPage(fetch[c], p, r, EndpointRecords(c))]
  /\ UNCHANGED <<registry, otherRegistry, legacyJson, config, depFetch, swrResponse,
                 deprecated, view, lookup, mIdentity, mSearch, mDone, mResult, mThrew,
                 address, byContract>>

NextCalls ==
  \E c \in Calls :
    \/ CallStart(c)
    \/ CallFirstResponse(c)
    \/ CallPageResponse(c)

SpecCalls == InitCalls /\ [][NextCalls]_vars

(***************************************************************************)
(* Properties.                                                             *)
(***************************************************************************)
Failed(r) == r \in Outcomes \ {"200"}

\* The entries of a list whose lower-cased wallet address is X, in order.
EntriesFor(list, X) ==
  LET isX(e) == toLowerCase(e.walletAddress.s) = X
  IN  SelectSeq(list, isX)

LowerAddressesOf(list) == {toLowerCase(list[i].walletAddress.s) : i \in 1..Len(list)}

\* No two entries of the list have wallet addresses equal after lower-casing.
NoDuplicateAddress(list) ==
  \A i, j \in 1..Len(list) :
    i # j => toLowerCase(list[i].walletAddress.s) # toLowerCase(list[j].walletAddress.s)

\* Both sources loaded, the legacy source requested, no search filter.
MergedUnfiltered ==
  /\ config.includeDeprecated = "true"
  /\ ~config.search.present
  /\ swrResponse.data.defined
  /\ deprecated.data.defined

\* C1: when every page request of the aggregation succeeded, listFetcher
\* returns exactly as many records as the registry serves, and every record
\* of the registry occurs in the result exactly once, for every page size.
C1_AggregationComplete ==
  /\ (fetch[1].pc # "idle" /\ \A p \in DOMAIN fetch[1].resp : fetch[1].resp[p] = "200")
       => fetch[1].pc = "resolved"
  /\ fetch[1].pc = "resolved" =>
    LET out == fetch[1].allIdentities
    IN  /\ Len(out) = Len(registry)
        /\ \A i \in 1..Len(registry) :
             Cardinality({j \in 1..Len(out) :
                            /\ out[j].txHash = registry[i].txHash
                            /\ out[j].walletAddress = registry[i].walletAddress}) = 1

\* C1 witness: three records fetched as three pages of one record each.
C1_Witness ==
  /\ fetch[1].pc = "resolved"
  /\ fetch[1].limit = 1
  /\ fetch[1].lastPage = 3
  /\ Len(fetch[1].allIdentities) = 3

C4_AllOrNothing ==
  (\E p \in DOMAIN fetch[1].resp : Failed(fetch[1].resp[p])) =>
    /\ fetch[1].pc = "rejected"
    /\ ~swrResponse.data.defined
    /\ swrResponse.error.kind = "Error"
    /\ view.error.kind = "Error"

\* C4 witness: pages 1 and 2 succeeded, page 3 failed.
C4_Witness ==
  /\ fetch[1].pc = "rejected"
  /\ DOMAIN fetch[1].resp = {1, 2, 3}
  /\ fetch[1].resp[1] = "200"
  /\ fetch[1].resp[2] = "200"
  /\ fetch[1].resp[3] = "500"
  /\ ~swrResponse.data.defined

CriterionNames == {"walletAddress", "legalName", "registrationNumber", "countryCode"}

\* The criteria set that keeps criterion k of search and drops the others.
Only(search, k) == [NoCriteria EXCEPT ![k] = search[k]]

\* matchIdentity has been applied to a criteria set in which at most
\* criterion k is given.
AppliedOnly(k) == mDone /\ mSearch = Only(mSearch, k)

\* The string values of the fields of the credential objects of an identity.
CredentialStrings(identity) ==
  IF "credentialsData" \notin DOMAIN identity THEN {}
  ELSE IF identity.credentialsData.t # "object" THEN {}
  ELSE LET creds == identity.credentialsData.vals
           stringsOf(c) ==
             IF c.t # "object" THEN {}
             ELSE {c.vals[j][2].s : j \in {n \in 1..Len(c.vals) : c.vals[n][2].t = "string"}}
       IN  UNION {stringsOf(creds[i][2]) : i \in 1..Len(creds)}

\* C5: matchIdentity returns true exactly when every given criterion passes
\* when it is the only criterion; the empty criteria set matches every
\* identity; dropping a criterion from a matching criteria set still matches.
C5_AndSemantics ==
  mDone =>
    /\ mResult = (\A k \in CriterionNames :
                    mSearch[k] = Undefined \/ matchIdentity(mIdentity, Only(mSearch, k)))
    /\ (mSearch = NoCriteria => mResult)
    /\ \A k \in CriterionNames :
         mResult => matchIdentity(mIdentity, [mSearch EXCEPT ![k] = Undefined])

\* C5 witness: four criteria given, all of them passing.
C5_Witness ==
  /\ mDone /\ mResult
  /\ \A k \in CriterionNames : Truthy(mSearch[k])

\* C6 as stated: an identity passes the walletAddress criterion exactly when
\* its address equals the criterion after lower-casing both.
C6_WalletExactMatch ==
  AppliedOnly("walletAddress") /\ mSearch.walletAddress.t = "string" =>
    mResult = (toLowerCase(mIdentity.walletAddress.s) = toLowerCase(mSearch.walletAddress.s))

\* C6 as amended: an identity passes a non-empty walletAddress criterion
\* exactly when its address equals the criterion after lower-casing both; an
\* empty criterion is ignored and every identity passes it.
C6_WalletExactMatchNonEmpty ==
  AppliedOnly("walletAddress") /\ mSearch.walletAddress.t = "string" =>
    mResult = \/ mSearch.walletAddress.s = <<>>
              \/ toLowerCase(mIdentity.walletAddress.s)
                   = toLowerCase(mSearch.walletAddress.s)

\* C6 witness: the upper-cased criterion "0XA" finds the address "0xa".
C6_Witness ==
  /\ AppliedOnly("walletAddress")
  /\ mSearch.walletAddress.s = <<"0","X","A">>
  /\ mIdentity.walletAddress.s = <<"0","x","a">>
  /\ mResult

\* C7: an identity passes a non-empty legalName criterion exactly when its
\* legal name is a string that contains the criterion after lower-casing
\* both; a null legal name never passes.
C7_LegalNameSubstring ==
  AppliedOnly("legalName") /\ mSearch.legalName.t = "string"
    /\ mSearch.legalName.s # <<>> =>
    /\ mResult = /\ mIdentity.legalName.t = "string"
                 /\ includes(toLowerCase(mIdentity.legalName.s),
                             toLowerCase(mSearch.legalName.s))
    /\ (mIdentity.legalName = Null => ~mResult)

\* C7 witness: the criterion "aG" finds the legal name "De AG".
C7_Witness ==
  /\ AppliedOnly("legalName")
  /\ mSearch.legalName.s = <<"a","G">>
  /\ mIdentity.legalName.s = <<"D","e"," ","A","G">>
  /\ mResult

ResolvableCountryCode ==
  /\ mSearch.countryCode.t = "string"
  /\ mSearch.countryCode.s # <<>>
  /\ ~regionNamesOfThrows(toUpperCase(mSearch.countryCode.s))

\* C9 as stated: a 'v1' identity passes a resolvable countryCode criterion
\* exactly when some credential string equals the code or contains the
\* resolved name, ignoring case; a '0.x' identity never passes.
C9_CountryCodeOrName ==
  AppliedOnly("countryCode") /\ ResolvableCountryCode =>
    IF mIdentity.version = "v1"
    THEN mResult = \E s \in CredentialStrings(mIdentity) :
                     \/ toLowerCase(s) = toLowerCase(mSearch.countryCode.s)
                     \/ includes(toLowerCase(s),
                                 toLowerCase(regionNamesOf(toUpperCase(mSearch.countryCode.s))))
    ELSE ~mResult

\* C9 as amended: a 'v1' identity passes a resolvable countryCode criterion
\* exactly when some credential string, with the white space around it
\* removed, equals the code ignoring case, or contains the resolved name
\* ignoring case; a '0.x' identity never passes.
C9_CountryCodeTrimmedOrName ==
  AppliedOnly("countryCode") /\ ResolvableCountryCode =>
    IF mIdentity.version = "v1"
    THEN mResult = \E s \in CredentialStrings(mIdentity) :
                     \/ toLowerCase(trim(s)) = toLowerCase(mSearch.countryCode.s)
                     \/ includes(toLowerCase(s),
                                 toLowerCase(regionNamesOf(toUpperCase(mSearch.countryCode.s))))
    ELSE ~mResult

\* C9 witness: the code "DE" finds the name in the text "in GERMANY".
C9_Witness ==
  /\ AppliedOnly("countryCode")
  /\ mSearch.countryCode.s = <<"D","E">>
  /\ mIdentity.version = "v1"
  /\ <<"i","n"," ","G","E","R","M","A","N","Y">> \in CredentialStrings(mIdentity)
  /\ mResult

\* C10 as stated: a countryCode criterion that Intl.DisplayNames cannot
\* resolve makes matchIdentity return false for every identity.
C10_InvalidCodeMatchesNothing ==
  mDone /\ mSearch.countryCode.t = "string"
    /\ regionNamesOfThrows(toUpperCase(mSearch.countryCode.s)) => ~mResult

\* C10 as amended: a non-empty countryCode criterion that Intl.DisplayNames
\* cannot resolve makes matchIdentity return false for every identity.
C10_InvalidNonEmptyCodeMatchesNothing ==
  mDone /\ mSearch.countryCode.t = "string" /\ mSearch.countryCode.s # <<>>
    /\ regionNamesOfThrows(toUpperCase(mSearch.countryCode.s)) => ~mResult

\* C10 witness: the code "INVALID" against credentials holding "invalid".
C10_Witness ==
  /\ AppliedOnly("countryCode")
  /\ mSearch.countryCode.s = <<"I","N","V","A","L","I","D">>
  /\ mIdentity.version = "v1"
  /\ <<"i","n","v","a","l","i","d">> \in CredentialStrings(mIdentity)
  /\ ~mResult

\* C11: identityFetcher fails with the 'not found' error on status 404 and
\* with another, generic fetch error on every other non-success status; on a
\* success it returns the identity the API sent, and no error.
C11_IdentityFetchErrors ==
  byContract.pc = "settled" =>
    LET r == byContract.response
        ret == byContract.return
        url == byContract.requests[1]
    IN  /\ r = "404" =>
             /\ ret.error = IdentityNotFoundError
             /\ ret.identity = <<>> /\ ~ret.isFound
        /\ r \in {"403", "500"} =>
             /\ ret.error.kind = "Error"
             /\ ret.error.message # IdentityNotFoundError.message
             /\ ret.error.statusText = r
             /\ ret.identity = <<>> /\ ~ret.isFound
        /\ r = "200" =>
             /\ ret.error = NoError
             /\ ret.isFound /\ Len(ret.identity) = 1
             /\ \E i \in 1..Len(registry) :
                  /\ ret.identity[1].walletAddress = registry[i].walletAddress
                  /\ ret.identity[1].txHash = registry[i].txHash
                  /\ ret.identity[1].legalName = registry[i].legalName
                  /\ toLowerCase(registry[i].walletAddress.s) = toLowerCase(url.walletAddress)

C11_Witness ==
  /\ byContract.pc = "settled"
  /\ byContract.response = "404"
  /\ byContract.return.error = IdentityNotFoundError
  /\ registry # <<>>

\* The positions of the entries of list stored under address a, compared in
\* lower case.
PositionsOf(list, a) ==
  {i \in 1..Len(list) : toLowerCase(list[i].walletAddress.s) = toLowerCase(a)}

\* C12: usePontusXIdentity returns the first entry, in the order of the
\* collection, whose wallet address equals the target after lower-casing
\* both; it returns undefined when no entry matches or when the address is
\* undefined or empty; isFound is true exactly when an entry is returned,
\* and the entry is returned as stored.
C12_LookupFirstMatch ==
  LET hits == PositionsOf(view.data, address.s)
  IN  /\ lookup.isFound = (lookup.identity # <<>>)
      /\ IF address.t = "string" /\ address.s # <<>> /\ hits # {}
         THEN LET first == CHOOSE i \in hits : \A j \in hits : i <= j
              IN  /\ lookup.identity = <<view.data[first]>>
                  /\ lookup.legalName = view.data[first].legalName
         ELSE lookup.identity = <<>> /\ lookup.legalName = Undefined

C12_Witness ==
  /\ lookup.isFound
  /\ Cardinality(PositionsOf(view.data, address.s)) >= 2
  /\ lookup.identity[1].walletAddress.s # address.s
  /\ lookup.identity[1].walletAddress.s # view.data[2].walletAddress.s

\* The primary records are all in the result, in their order, once the
\* primary fetch succeeded and the legacy fetch failed (those the search
\* criteria reject left out).
PrimaryKeptOnLegacyFailure ==
  (/\ swrResponse.data.defined
   /\ deprecated.error.kind = "Error") =>
     view.data = SelectSeq(swrResponse.data.list, LAMBDA identity :
                   config.search.present => matchIdentity(identity, config.search.criteria))

\* C13 as stated: with includeDeprecated enabled a failure of the legacy
\* fetch removes no primary record, and the combined state shows the primary
\* error and the legacy error independently: each is observable whether or
\* not the other occurred.
C13_ErrorsIndependent ==
  config.includeDeprecated = "true" =>
    /\ PrimaryKeptOnLegacyFailure
    /\ swrResponse.error.kind = "Error" => view.error = swrResponse.error
    /\ deprecated.error.kind = "Error" => view.error = deprecated.error

\* C13 amended: with includeDeprecated enabled a failure of the legacy fetch
\* removes no primary record, and the one error of the combined state is the
\* primary error if there is one, else the legacy error.
C13_PrimaryErrorFirst ==
  config.includeDeprecated = "true" =>
    /\ PrimaryKeptOnLegacyFailure
    /\ view.error = IF swrResponse.error.kind = "Error" THEN swrResponse.error
                    ELSE deprecated.error

C13_Witness ==
  /\ config.includeDeprecated = "true"
  /\ swrResponse.data.defined /\ Len(swrResponse.data.list) >= 2
  /\ deprecated.error = DeprecatedError
  /\ view.data = swrResponse.data.list
  /\ view.error = DeprecatedError

\* C14: whenever a page request, page 1 or a later page, comes back with a
\* non-success status, the error listFetcher fails with carries both the
\* number of the failing page and the failing status.
C14_ErrorCarriesPageAndStatus ==
  (fetch[1].pc = "rejected" /\ fetch[1].error # NetworkError) =>
    \E p \in DOMAIN fetch[1].resp :
      /\ fetch[1].resp[p] \in {"404", "500"}
      /\ fetch[1].error.page = p
      /\ fetch[1].error.statusText = fetch[1].resp[p]

\* C15: matchIdentity returns a boolean and never throws, whatever the
\* identity (primary or legacy, null legal name, missing, null or non-object
\* credentials) and the criteria; criteria that match nothing give an empty
\* data list and leave the error of usePontusXRegistry unset.
C15_SearchNeverFails ==
  mDone =>
    /\ ~mThrew
    /\ mResult \in BOOLEAN
    /\ config.search = Search(mSearch)
    /\ view.data = IF mResult THEN <<mIdentity>> ELSE <<>>
    /\ view.error = NoError

C15_Witness ==
  /\ mDone /\ ~mThrew /\ ~mResult
  /\ mIdentity.version = "v1"
  /\ mIdentity.legalName = Null
  /\ mIdentity.credentialsData.t = "object"
  /\ \E i \in 1..Len(mIdentity.credentialsData.vals) :
       mIdentity.credentialsData.vals[i][2] = Null
  /\ Truthy(mSearch.legalName) /\ Truthy(mSearch.countryCode)
  /\ view.data = <<>> /\ view.error = NoError

\* C16: search is client-side only.  A render with other search criteria
\* issues no request and leaves both fetches and the fetched data as they
\* are (the requests depend on the URL and the batch size, never on the
\* criteria); the new result is the filter run over the merged data that
\* was already fetched.
C16_SearchIsClientSide ==
  [][config'.search # config.search =>
       /\ fetch' = fetch /\ depFetch' = depFetch
       /\ swrResponse' = swrResponse /\ deprecated' = deprecated
       /\ view'.data =
            SelectSeq(mergedData(config, swrResponse.data, deprecated.data),
                      LAMBDA identity :
                        config'.search.present =>
                          matchIdentity(identity, config'.search.criteria))
       /\ view'.isLoading = view.isLoading /\ view'.error = view.error]_vars

C16_Witness ==
  /\ config.search.present
  /\ fetch[1].pc = "resolved" /\ Len(fetch[1].requests) >= 2
  /\ depFetch = "settled" /\ deprecated.data.defined
  /\ config.includeDeprecated = "true"
  /\ view.data # <<>>
  /\ Len(view.data) < Len(mergedData(config, swrResponse.data, deprecated.data))

AllTagged(list, version) == \A i \in 1..Len(list) : list[i].version = version

\* C17: every record listFetcher returns, from page 1 or a later page, and
\* the record identityFetcher returns carry version 'v1' whatever version
\* the API body carried; every record deprecatedFetcher returns carries
\* '0.x'; in a merged result an entry is '0.x' only if it came from the
\* legacy source.
C17_VersionTagging ==
  /\ AllTagged(fetch[1].allIdentities, "v1")
  /\ AllTagged(swrResponse.data.list, "v1")
  /\ AllTagged(byContract.swr.data.list, "v1")
  /\ AllTagged(byContract.return.identity, "v1")
  /\ AllTagged(deprecated.data.list, "0.x")
  /\ \A i \in 1..Len(view.data) :
       IF view.data[i].version = "0.x"
       THEN /\ "txHash" \notin DOMAIN view.data[i]
            /\ \E k \in 1..Len(legacyJson) :
                 /\ view.data[i].walletAddress = Str(legacyJson[k][1])
                 /\ view.data[i].legalName = Str(legacyJson[k][2])
       ELSE /\ view.data[i].version = "v1"
            /\ \E j \in 1..Len(registry) :
                 /\ view.data[i].walletAddress = registry[j].walletAddress
                 /\ view.data[i].txHash = registry[j].txHash

C17_Witness ==
  /\ fetch[1].pc = "resolved" /\ Len(registry) >= 2
  /\ registry[2].version = "v2"
  /\ fetch[1].allIdentities[2].version = "v1"
  /\ byContract.response = "200"
  /\ byContract.return.identity[1].txHash = 2
  /\ byContract.return.identity[1].version = "v1"
  /\ deprecated.data.list # <<>>
  /\ \E i \in 1..Len(view.data) : view.data[i].version = "v1"

\* The positions of the legacy entries whose address, lower-cased, is the
\* lower-cased address of no primary record.
LegacyOnlyPositions(primary, legacy) ==
  {k \in 1..Len(legacy) : PositionsOf(primary, legacy[k].walletAddress.s) = {}}

\* The m-th smallest element of a set of numbers.
NthOf(S, m) == CHOOSE k \in S : Cardinality({j \in S : j < k}) = m - 1

\* C18: the unfiltered merged result is the primary records in their order,
\* followed by exactly the legacy entries, in their order, whose lower-cased
\* address is the lower-cased address of no primary record; no record is
\* altered, every address keeps the casing it is stored with.
C18_MergeShape ==
  MergedUnfiltered =>
    LET primary == swrResponse.data.list
        legacy == deprecated.data.list
        n == Len(primary)
        kept == LegacyOnlyPositions(primary, legacy)
    IN  /\ Len(view.data) = n + Cardinality(kept)
        /\ \A i \in 1..n :
             /\ view.data[i] = primary[i]
             /\ view.data[i].walletAddress = registry[i].walletAddress
        /\ \A m \in 1..Cardinality(kept) :
             /\ view.data[n + m] = legacy[NthOf(kept, m)]
             /\ view.data[n + m].walletAddress.s = legacyJson[NthOf(kept, m)][1]

C18_Witness ==
  /\ MergedUnfiltered
  /\ Len(swrResponse.data.list) >= 2
  /\ Cardinality(LegacyOnlyPositions(swrResponse.data.list, deprecated.data.list)) = 2
  /\ Len(deprecated.data.list) = 3
  /\ view.data[1].walletAddress.s = Addr(2)
  /\ view.data[Len(view.data)].walletAddress.s = Addr(4)
  /\ view.data[Len(view.data)].version = "0.x"

\* The pages call f has requested.
RequestedPages(f) == {f.requests[i].page : i \in 1..Len(f.requests)}

\* The last page the registry reports for the configured batch size.
ServedLastPage == CeilDiv(Len(registry), batchSizeOf(config))

\* The ordering of the requests of call f: no page >= 2 is requested before
\* page 1 came back with success and a lastPage above 1; after a failed page
\* 1 no other page is requested; once page 1 succeeded all pages
\* 2..lastPage are requested at once, before any of their responses.
FanOut(f) ==
  /\ (RequestedPages(f) \ {1} # {}) =>
       f.resp[1] = "200" /\ f.lastPage > 1 /\ f.lastPage = ServedLastPage
  /\ (f.pc = "first" \/ (f.pc = "rejected" /\ Failed(f.resp[1]))) =>
       RequestedPages(f) = {1}
  /\ (f.pc \in {"rest", "resolved"} \/ (f.pc = "rejected" /\ ~Failed(f.resp[1]))) =>
       /\ f.resp[1] = "200"
       /\ RequestedPages(f) = {1} \cup (2..ServedLastPage)
       /\ DOMAIN f.resp = RequestedPages(f)

\* C19 as stated: the fan-out ordering holds, and listFetcher returns, with
\* its result or with its error, only after every request for a page
\* 2..lastPage has completed.
C19_ReturnsAfterAllComplete ==
  /\ FanOut(fetch[1])
  /\ fetch[1].pc \in {"resolved", "rejected"} =>
       \A p \in DOMAIN fetch[1].resp : fetch[1].resp[p] # "pending"

\* C19 amended: the fan-out ordering holds; listFetcher returns its result
\* only after every request for a page 2..lastPage has completed with
\* success, keeps waiting while none has failed and one is outstanding, and
\* fails as soon as one of them has failed, whatever is still in flight.
C19_FanOutOrdering ==
  LET f == fetch[1]
  IN  /\ FanOut(f)
      /\ f.pc = "resolved" => \A p \in 1..f.lastPage : f.resp[p] = "200"
      /\ f.pc = "rest" =>
           /\ \E p \in 2..f.lastPage : f.resp[p] = "pending"
           /\ \A p \in 2..f.lastPage : f.resp[p] \in {"pending", "200"}
      /\ (f.pc = "rejected" /\ ~Failed(f.resp[1])) =>
           \E p \in 2..f.lastPage : Failed(f.resp[p])

C19_Witness ==
  /\ fetch[1].pc = "rejected"
  /\ fetch[1].lastPage = 3
  /\ RequestedPages(fetch[1]) = {1, 2, 3}
  /\ fetch[1].resp[2] = "pending"
  /\ fetch[1].resp[3] = "500"
  /\ swrResponse.error = PageError(3)

\* C20: no page is requested twice, a failed page is not requested again;
\* with lastPage = L the pages requested are exactly 1..L, L requests in
\* all, and exactly one request when lastPage <= 1; every request carries
\* the same limit, the configured batch size.
C20_ExactRequestPlan ==
  LET f == fetch[1]
      n == Len(f.requests)
  IN  /\ \A i, j \in 1..n : i # j => f.requests[i].page # f.requests[j].page
      /\ \A i \in 1..n : f.requests[i].limit = batchSizeOf(config)
      /\ f.pc = "idle" => n = 0
      /\ f.pc # "idle" =>
           IF f.resp[1] = "200"
           THEN /\ f.lastPage = ServedLastPage
                /\ IF f.lastPage <= 1 THEN n = 1 /\ RequestedPages(f) = {1}
                   ELSE n = f.lastPage /\ RequestedPages(f) = 1..f.lastPage
           ELSE n = 1 /\ RequestedPages(f) = {1}

C20_Witness ==
  /\ fetch[1].pc = "rejected"
  /\ fetch[1].lastPage = 3
  /\ Len(fetch[1].requests) = 3
  /\ fetch[1].resp[2] = "500"
  /\ fetch[1].resp[3] = "200"
  /\ \A i \in 1..3 : fetch[1].requests[i].limit = 1

\* C24: usePontusXIdentityByContract issues a single request, to the path
\* with both the contract and the wallet address substituted, and none to
\* the list or the legacy endpoint; when the contract address or the wallet
\* address is undefined or empty it issues no request at all and returns
\* identity undefined, isFound false and no error.
C24_DirectFetchPlan ==
  LET b == byContract
      complete == Truthy(b.contractAddress) /\ Truthy(b.walletAddress)
  IN  /\ fetch[1].requests = <<>> /\ depFetch = "idle"
      /\ ~swrResponse.data.defined /\ ~deprecated.data.defined
      /\ IF complete
         THEN /\ b.pc = "idle" => b.requests = <<>>
              /\ b.pc # "idle" =>
                   b.requests = <<[contractAddress |-> b.contractAddress.s,
                                   walletAddress |-> b.walletAddress.s]>>
              /\ b.response = "200" =>
                   /\ b.return.isFound
                   /\ toLowerCase(b.return.identity[1].walletAddress.s)
                        = toLowerCase(b.walletAddress.s)
                   /\ toLowerCase(b.return.identity[1].contractAddress.s)
                        = toLowerCase(b.contractAddress.s)
         ELSE /\ b.pc = "idle" /\ b.requests = <<>>
              /\ b.return.identity = <<>>
              /\ ~b.return.isFound
              /\ b.return.error = NoError
              /\ ~b.return.isLoading

C24_Witness ==
  /\ byContract.pc = "settled"
  /\ byContract.response = "200"
  /\ Len(byContract.requests) = 1
  /\ byContract.requests[1].contractAddress = <<"0", "X", "c">>
  /\ byContract.requests[1].walletAddress = <<"0", "x", "b">>
  /\ byContract.return.identity[1].walletAddress.s = <<"0", "x", "b">>
  /\ fetch[1].pc = "idle"

\* The legacy entries the search criteria of the config let pass.
LegacyPassingSearch ==
  SelectSeq(deprecated.data.list, LAMBDA identity :
    config.search.present => matchIdentity(identity, config.search.criteria))

\* C27: with includeDeprecated enabled, while the primary aggregation has
\* produced no data (loading or failed) and the legacy source has loaded,
\* usePontusXRegistry returns all legacy entries that pass the search filter
\* and no primary entry; a primary error is reported next to that data.
C27_LegacyWithoutPrimary ==
  (/\ config.includeDeprecated = "true"
   /\ ~swrResponse.data.defined
   /\ deprecated.data.defined) =>
     /\ Len(deprecated.data.list) = Len(legacyJson)
     /\ view.data = LegacyPassingSearch
     /\ \A i \in 1..Len(view.data) :
          view.data[i].version = "0.x" /\ "txHash" \notin DOMAIN view.data[i]
     /\ fetch[1].pc = "rejected" =>
          view.error.kind = "Error" /\ view.error = fetch[1].error

C27_Witness ==
  /\ config.includeDeprecated = "true"
  /\ fetch[1].pc = "rejected"
  /\ ~swrResponse.data.defined
  /\ deprecated.data.defined
  /\ Len(view.data) = 3
  /\ view.data[3].walletAddress.s = LegacyKey(3)
  /\ view.error = PageError(2)

\* C28: when includeDeprecated is absent or false the result holds no '0.x'
\* entry and neither isLoading nor error depends on the legacy fetch, only
\* on the primary one; when it is enabled isLoading is true exactly when the
\* primary or the legacy fetch is loading.
C28_LegacyIsolation ==
  LET primaryLoading == fetch[1].pc \in {"idle", "first", "rest"}
      legacyLoading == depFetch # "settled"
  IN  IF config.includeDeprecated = "true"
      THEN view.isLoading = (primaryLoading \/ legacyLoading)
      ELSE /\ \A i \in 1..Len(view.data) : view.data[i].version = "v1"
           /\ view.isLoading = primaryLoading
           /\ IF fetch[1].pc = "rejected"
              THEN view.error = fetch[1].error
              ELSE view.error.kind # "Error"

C28_Witness ==
  /\ config.includeDeprecated = "false"
  /\ deprecated.error = DeprecatedError
  /\ fetch[1].pc = "rest"
  /\ view.isLoading
  /\ view.error.kind # "Error"

\* C29: usePontusXIdentity resolves the address in what usePontusXRegistry
\* returns for the same config, after the merge and after the search filter:
\* when no identity stored under the address passes the search criteria the
\* lookup returns undefined although the merged data holds the address; with
\* includeDeprecated enabled an address that only the legacy source holds
\* resolves to its '0.x' entry.
C29_LookupOverFilteredSet ==
  LET merged == mergedData(config, swrResponse.data, deprecated.data)
      at == PositionsOf(merged, address.s)
  IN  /\ lookup.identity # <<>> =>
           \E i \in 1..Len(view.data) : view.data[i] = lookup.identity[1]
      /\ (/\ Truthy(address)
          /\ config.search.present
          /\ \A i \in at : ~matchIdentity(merged[i], config.search.criteria)) =>
             lookup.identity = <<>> /\ ~lookup.isFound
      /\ (/\ Truthy(address)
          /\ config.includeDeprecated = "true"
          /\ ~config.search.present
          /\ PositionsOf(dataOrEmpty(swrResponse.data), address.s) = {}
          /\ PositionsOf(deprecated.data.list, address.s) # {}) =>
             /\ lookup.isFound
             /\ lookup.identity[1].version = "0.x"
             /\ toLowerCase(lookup.identity[1].walletAddress.s) = toLowerCase(address.s)

C29_Witness ==
  /\ Truthy(address)
  /\ config.search.present
  /\ swrResponse.data.defined
  /\ PositionsOf(swrResponse.data.list, address.s) # {}
  /\ view.data # <<>>
  /\ ~lookup.isFound

\* C21: the aggregation fails at the moment the first page fails, with the
\* error of that page, whatever its number and whatever is still in flight;
\* no later failure or success replaces the error or turns the outcome into
\* a success.
C21_FirstFailureWins ==
  [][LET f == fetch[1]
         g == fetch'[1]
     IN  /\ f.pc = "rest" =>
              \A q \in 2..f.lastPage : f.resp[q] \in {"pending", "200"}
         /\ (f.pc = "rest" /\ g.pc = "rejected") =>
              \E p \in 2..f.lastPage :
                /\ f.resp[p] = "pending" /\ Failed(g.resp[p])
                /\ \A q \in DOMAIN f.resp \ {p} : g.resp[q] = f.resp[q]
                /\ g.error = IF g.resp[p] = "reject" THEN NetworkError ELSE PageError(p)
                /\ swrResponse'.error = g.error
                /\ ~swrResponse'.data.defined /\ ~swrResponse'.isLoading
         /\ f.pc = "rejected" =>
              /\ g.pc = "rejected" /\ g.error = f.error
              /\ g.allIdentities = f.allIdentities
              /\ swrResponse' = swrResponse]_vars

C21_Witness ==
  /\ fetch[1].pc = "rejected"
  /\ fetch[1].lastPage = 3
  /\ fetch[1].resp[2] = "500"
  /\ fetch[1].resp[3] = "404"
  /\ fetch[1].error = PageError(3)
  /\ swrResponse.error = PageError(3)

\* C25: on a success response deprecatedFetcher returns one entry per key of
\* the mapping, in the mapping's order, with the key as walletAddress, casing
\* unchanged, the mapped value as legalName and version '0.x'; on a
\* non-success status it fails and returns no entries.
C25_LegacyParsing ==
  /\ depFetch # "settled" => ~deprecated.data.defined /\ deprecated.error = NoError
  /\ depFetch = "settled" => (deprecated.data.defined # (deprecated.error.kind = "Error"))
  /\ deprecated.error.kind = "Error" => deprecated.data.list = <<>>
  /\ deprecated.data.defined =>
       /\ Len(deprecated.data.list) = Len(legacyJson)
       /\ \A k \in 1..Len(legacyJson) :
            /\ deprecated.data.list[k].walletAddress.t = "string"
            /\ deprecated.data.list[k].walletAddress.s = legacyJson[k][1]
            /\ deprecated.data.list[k].legalName.s = legacyJson[k][2]
            /\ deprecated.data.list[k].version = "0.x"
            /\ DOMAIN deprecated.data.list[k] = {"walletAddress", "legalName", "version"}

C25_Witness ==
  /\ depFetch = "settled"
  /\ deprecated.data.defined
  /\ Len(deprecated.data.list) = 3
  /\ deprecated.data.list[1].walletAddress.s = <<"0", "x", "A">>
  /\ deprecated.data.list[2].walletAddress.s = <<"0", "x", "b">>
  /\ deprecated.data.list[3].walletAddress.s = <<"0", "x", "B">>

\* C26: whatever the order in which the pages 2..lastPage complete, the
\* sequence listFetcher returns is the records of page 1, then of page 2,
\* ..., then of page lastPage, each page in its own order: it is the same
\* for every order of completion.
C26_PageOrder ==
  fetch[1].pc = "resolved" =>
    LET f == fetch[1]
    IN  /\ Len(f.allIdentities) = Len(registry)
        /\ \A q \in 1..f.lastPage :
             LET page == serverPage(registry, q, f.limit).data
             IN  \A j \in 1..Len(page) :
                   /\ f.allIdentities[(q - 1) * f.limit + j].txHash = page[j].txHash
                   /\ f.allIdentities[(q - 1) * f.limit + j].walletAddress
                        = page[j].walletAddress
        /\ swrResponse.data.list = f.allIdentities

C26_Witness ==
  /\ fetch[1].pc = "resolved"
  /\ fetch[1].lastPage = 3
  /\ \A i \in 1..3 : fetch[1].allIdentities[i].txHash = i
  /\ swrResponse.data.list = fetch[1].allIdentities

\* C22: two aggregations that run side by side, on the same or on different
\* records and page sizes, with their responses interleaved in any order,
\* each return exactly the records of their own pages, and each fails only
\* through a failure of one of its own requests.
C22_CallIndependence ==
  \A c \in Calls :
    LET f == fetch[c]
        records == EndpointRecords(c)
    IN  /\ f.pc = "resolved" =>
             /\ Len(f.allIdentities) = Len(records)
             /\ \A i \in 1..Len(records) :
                  f.allIdentities[i] = [records[i] EXCEPT !.version = "v1"]
        /\ f.pc = "rejected" => \E p \in DOMAIN f.resp : Failed(f.resp[p])
        /\ (f.pc # "idle" /\ \A p \in DOMAIN f.resp : f.resp[p] = "200") =>
             f.pc = "resolved"
        /\ f.pc \in {"first", "rest"} =>
             \A p \in DOMAIN f.resp : f.resp[p] \in {"pending", "200"}
        /\ \A i \in 1..Len(f.requests) : f.requests[i].limit = f.limit
        /\ f.pc \in {"rest", "resolved"} => f.lastPage = CeilDiv(Len(records), f.limit)

C22_Witness ==
  /\ fetch[1].pc = "rejected"
  /\ fetch[1].resp[1] = "200"
  /\ fetch[2].pc = "resolved"
  /\ fetch[2].limit # fetch[1].limit
  /\ fetch[2].lastPage >= 2
  /\ Len(registry) # Len(otherRegistry)
  /\ Len(fetch[2].allIdentities) = Len(otherRegistry)

\* The listFetcher call of the hook has finished: with the full list of the
\* registry's records, which SWR holds as data, or with an error, which SWR
\* holds as error.
CallFinished ==
  \/ /\ fetch[1].pc = "resolved"
     /\ Len(fetch[1].allIdentities) = Len(registry)
     /\ swrResponse.data = Data(fetch[1].allIdentities)
  \/ /\ fetch[1].pc = "rejected"
     /\ swrResponse.error = fetch[1].error
     /\ swrResponse.error # NoError

\* The listFetcher call is suspended only while one of its requests is pending.
SuspendedOnlyWhilePending ==
  fetch[1].pc \in {"first", "rest"} => \E p \in DOMAIN fetch[1].resp : fetch[1].resp[p] = "pending"

\* C23 as stated: when every issued page request completes, the call
\* finishes with the full list or an error and from then on the isLoading of
\* usePontusXRegistry is false.
C23_LoadingEnds ==
  <>[](CallFinished /\ ~view.isLoading)

\* C23, amended: when every issued page request completes, the call is
\* never suspended without a pending request, it finishes with the full
\* list or an error, and from then on the isLoading of SWR's registry key is
\* false; the isLoading of usePontusXRegistry is then true exactly while
\* includeDeprecated is true and the legacy file is still loading.
C23_Termination ==
  /\ []SuspendedOnlyWhilePending
  /\ <>[](/\ CallFinished
          /\ ~swrResponse.isLoading
          /\ view.isLoading <=> (config.includeDeprecated = "true" /\ deprecated.isLoading))

C23_Witness ==
  /\ fetch[1].pc = "resolved"
  /\ fetch[1].lastPage >= 2
  /\ \A p \in DOMAIN fetch[1].resp : fetch[1].resp[p] = "200"
  /\ ~swrResponse.isLoading
  /\ config.includeDeprecated = "true"
  /\ depFetch = "pending"
  /\ deprecated.isLoading
  /\ view.isLoading

====
